---- MODULE Spec2Model ----
(***************************************************************************)
(* Model of jaraco.desktop.wallpaper: the free-space check, the metadata   *)
(* fetch, the image download, the platform wallpaper setter and the driver *)
(* set_random_wallpaper that runs them in sequence.                        *)
(***************************************************************************)
EXTENDS Integers, Sequences, FiniteSets, TLC

\* ------------------------------------------------------------------------
\* Python float arithmetic (IEEE-754 binary64, round-to-nearest-even).
\* A positive float is [m |-> 53 bits, most significant first, e |-> exponent],
\* with value (m as a number) * 2^e.  Mantissas are bit sequences so that no
\* intermediate number exceeds a few hundred.
\* ------------------------------------------------------------------------

\* significand width of a Python float
MantBits == 53

Zeros(n) == [i \in 1..n |-> 0]

RECURSIVE BitsToNat(_)
BitsToNat(b) ==
    IF b = <<>> THEN 0
    ELSE 2 * BitsToNat(SubSeq(b, 1, Len(b) - 1)) + b[Len(b)]

RECURSIVE Pow2(_)
Pow2(k) == IF k = 0 THEN 1 ELSE 2 * Pow2(k - 1)

\* the k low bits of n, most significant first
NatToBits(n, k) == [i \in 1..k |-> (n \div Pow2(k - i)) % 2]

LeadingZeroBits(b) ==
    IF \A i \in 1..Len(b) : b[i] = 0 THEN Len(b)
    ELSE (CHOOSE i \in 1..Len(b) : b[i] = 1 /\ \A j \in 1..(i - 1) : b[j] = 0) - 1

\* b + 1 for a bit sequence that is not all ones
IncBits(b) ==
    LET k == CHOOSE i \in 1..Len(b) : b[i] = 0 /\ \A j \in (i + 1)..Len(b) : b[j] = 1
    IN  [i \in 1..Len(b) |-> IF i < k THEN b[i] ELSE IF i = k THEN 1 ELSE 0]

\* round-half-to-even decision for a value cut into kept and dropped bits
HalfEvenUp(dropped, keptOdd) ==
    /\ dropped # <<>>
    /\ dropped[1] = 1
    /\ \/ \E i \in 2..Len(dropped) : dropped[i] = 1
       \/ keptOdd

\* the float nearest to bits * 2^e (bits non-zero, at least MantBits long
\* after its leading zeros)
RoundToFloat(bits, e) ==
    LET lz      == LeadingZeroBits(bits)
        sig     == SubSeq(bits, lz + 1, Len(bits))
        d       == Len(sig) - MantBits
        kept    == SubSeq(sig, 1, MantBits)
        dropped == SubSeq(sig, MantBits + 1, Len(sig))
    IN  IF ~HalfEvenUp(dropped, kept[MantBits] = 1)
        THEN [m |-> kept, e |-> e + d]
        ELSE IF \A i \in 1..MantBits : kept[i] = 1
        THEN [m |-> <<1>> \o Zeros(MantBits - 1), e |-> e + d + 1]
        ELSE [m |-> IncBits(kept), e |-> e + d]

\* 2^k modulo T, by repeated squaring
RECURSIVE Pow2Mod(_, _)
Pow2Mod(k, T) ==
    IF k = 0 THEN 1 % T
    ELSE IF k % 2 = 0 THEN (Pow2Mod(k \div 2, T) * Pow2Mod(k \div 2, T)) % T
    ELSE (2 * Pow2Mod(k - 1, T)) % T

\* remainder of the long division F / T after k binary digits
DivRem(F, T, k) == (F * Pow2Mod(k, T)) % T

\* the first n binary digits of F / T after the point, for 0 < F < T
DivBits(F, T, n) == [k \in 1..n |-> (2 * DivRem(F, T, k - 1)) \div T]

\* number of zero digits that start the binary expansion of F / T
RECURSIVE LeadingZeros(_, _)
LeadingZeros(r, T) ==
    IF 2 * r >= T THEN 0 ELSE 1 + LeadingZeros(2 * r, T)

\* int / int for 0 < F < T: the correctly rounded quotient
TrueDiv(F, T) ==
    LET n  == LeadingZeros(F, T) + MantBits + 1
        st == IF DivRem(F, T, n) > 0 THEN 1 ELSE 0
    IN  RoundToFloat(DivBits(F, T, n) \o <<st>>, -(n + 1))

\* value of the 8-bit limb i (1 = most significant) of a bit sequence
LimbVal(b, i) == BitsToNat(SubSeq(b, 8 * (i - 1) + 1, 8 * i))

\* carry that multiplying the limbs below limb i by c sends into limb i
RECURSIVE MulCarry(_, _, _)
MulCarry(b, c, i) ==
    IF 8 * i >= Len(b) THEN 0
    ELSE (LimbVal(b, i + 1) * c + MulCarry(b, c, i + 1)) \div 256

\* bits of (b as a number) * c for c < 256; Len(b) a multiple of 8
MulSmall(b, c) ==
    LET limbs == Len(b) \div 8
        prod  == [i \in 0..limbs |->
                    IF i = 0 THEN MulCarry(b, c, 0)
                    ELSE (LimbVal(b, i) * c + MulCarry(b, c, i)) % 256]
    IN  [j \in 1..(Len(b) + 8) |->
            NatToBits(prod[(j - 1) \div 8], 8)[((j - 1) % 8) + 1]]

\* float * 100
Mul100(x) == RoundToFloat(MulSmall(Zeros(3) \o x.m, 100), x.e)

\* int(x) without the round: the fraction is cut off
PyTrunc(x) ==
    IF -x.e <= MantBits THEN BitsToNat(SubSeq(x.m, 1, MantBits + x.e)) ELSE 0

\* round(x) for a float 0 < x < 128: nearest integer, halves to even
PyRound(x) ==
    LET f        == -x.e
        intbits  == IF f <= MantBits THEN SubSeq(x.m, 1, MantBits - f) ELSE <<>>
        fracbits == IF f <= MantBits THEN SubSeq(x.m, MantBits - f + 1, MantBits)
                    ELSE Zeros(f - MantBits) \o x.m
        n        == BitsToNat(intbits)
    IN  IF HalfEvenUp(fracbits, n % 2 = 1) THEN n + 1 ELSE n

\* int(round(free / total * 100)) for 0 <= free <= total, total > 0
Percent(free, total) ==
    IF free = 0 THEN 0
    ELSE IF free = total THEN 100
    ELSE PyRound(Mul100(TrueDiv(free, total)))

\* ------------------------------------------------------------------------
\* Strings are sequences of one-character strings.
\* ------------------------------------------------------------------------

\* longest total byte count of the disk in a run of the driver
MaxTotal == 4
\* longest total byte count of the disk when free_space is checked alone
MaxTotalFS == 40
\* longest title the page may carry
MaxTitleLen == 2
\* longest image url the page may carry
MaxUrlLen == 2
\* longest picture directory name
MaxDirLen == 2

\* a control character
Ctrl == "\n"

TitleChars == {"a", "/", Ctrl}
UrlChars   == {"h", ".", "/"}
DirChars   == {"d", "/"}

Strs(chars, n) == UNION {[1..k -> chars] : k \in 0..n}

Titles == Strs(TitleChars, MaxTitleLen)
Urls   == Strs(UrlChars, MaxUrlLen)
\* picture_dir is a directory name, so it is not empty
Dirs   == Strs(DirChars, MaxDirLen) \ {<<>>}

\* the value of a local that is not assigned yet
None == <<"None">>

Platforms == {"linux", "win32", "darwin", "freebsd"}

free_space_minimum == 25

base_url == <<"b">>

\* Python values with a truth value: False, None and the integers
PyFalse  == [type |-> "bool", v |-> 0]
PyNone   == [type |-> "NoneType", v |-> 0]
PyInt(n) == [type |-> "int", v |-> n]

\* bool(x): False, None and 0 are falsy
Truthy(x) == x.v # 0

\* s.split(c)
RECURSIVE Split(_, _)
Split(s, c) ==
    IF \A i \in 1..Len(s) : s[i] # c THEN <<s>>
    ELSE LET k == CHOOSE i \in 1..Len(s) : s[i] = c /\ \A j \in 1..(i - 1) : s[j] # c
         IN  <<SubSeq(s, 1, k - 1)>> \o Split(SubSeq(s, k + 1, Len(s)), c)

\* the path separators os.path recognises, and the one it inserts
Seps(plat) == IF plat = "win32" THEN {"/", "\\"} ELSE {"/"}
Sep(plat)  == IF plat = "win32" THEN "\\" ELSE "/"

\* os.path.join(a, b) (posixpath, or ntpath without drive letters)
PathJoin(plat, a, b) ==
    IF b # <<>> /\ b[1] \in Seps(plat) THEN b
    ELSE IF a = <<>> \/ a[Len(a)] \in Seps(plat) THEN a \o b
    ELSE a \o <<Sep(plat)>> \o b

\* ------------------------------------------------------------------------
\* The environment: the disk behind picture_dir, the web server, the OS.
\* ------------------------------------------------------------------------

\* picture_dir does not exist
Missing == [exists |-> FALSE, free |-> 0, total |-> 0]

Disks(maxTotal) ==
    {Missing} \cup
    {d \in [exists : {TRUE}, free : 0..maxTotal, total : 0..maxTotal] :
        d.free <= d.total}

\* a meta element of the page: absent, present without a content attribute,
\* or present with content s; dw says its line also holds document.write
NoMeta == [state |-> "absent", dw |-> FALSE, s |-> <<>>]

Metas(contents) ==
    {NoMeta} \cup
    {[state |-> "nocontent", dw |-> b, s |-> <<>>] : b \in BOOLEAN} \cup
    {[state |-> "ok", dw |-> b, s |-> c] : b \in BOOLEAN, c \in contents}

\* what the server answers to the GET of base_url
NoPage == [kind |-> "none", img |-> NoMeta, title |-> NoMeta]

Responses ==
    {[kind |-> k, img |-> NoMeta, title |-> NoMeta] :
        k \in {"URLError", "HTTPError", "unparsable"}} \cup
    {[kind |-> "page", img |-> i, title |-> t] :
        i \in Metas(Urls), t \in Metas(Titles)}

\* what the server answers to the GET of the image url
Fetches == {"ok", "HTTPError", "URLError"}

\* ------------------------------------------------------------------------
\* The functions of the module.
\* ------------------------------------------------------------------------

Return(v) == [raised |-> "none", val |-> v]
Raise(e)  == [raised |-> e, val |-> PyNone]

\* how the interpreter ends: still running, normal end, SystemExit(n), or an
\* uncaught exception (traceback, exit status 1)
Running       == [exc |-> "running", code |-> 0]
Normal        == [exc |-> "none", code |-> 0]
SystemExit(n) == [exc |-> "SystemExit", code |-> n]
Uncaught(e)   == [exc |-> e, code |-> 1]

_get_free_bytes_win32(d) ==
    IF ~d.exists THEN Raise("OSError")
    ELSE Return([free |-> d.free, total |-> d.total])

_get_free_bytes_default(d) ==
    IF ~d.exists THEN Raise("OSError")
    ELSE Return([free |-> d.free, total |-> d.total])

_get_free_bytes(plat, d) ==
    IF plat = "win32" THEN _get_free_bytes_win32(d)
    ELSE _get_free_bytes_default(d)

\* free_space without its except clause: the OSError reaches the caller
free_space_propagates(plat, d) ==
    LET r == _get_free_bytes(plat, d)
    IN  IF r.raised = "OSError" THEN Raise("OSError")
        ELSE IF r.val.total = 0 THEN Raise("ZeroDivisionError")
        ELSE Return(PyInt(Percent(r.val.free, r.val.total)))

free_space(plat, d) ==
    LET r == _get_free_bytes(plat, d)
    IN  IF r.raised = "OSError" THEN Return(PyFalse)
        ELSE IF r.val.total = 0 THEN Raise("ZeroDivisionError")
        ELSE Return(PyInt(Percent(r.val.free, r.val.total)))

URLDetail(u, t) == [type |-> "URLDetail", url |-> u, title |-> t]

\* soup.find("meta", {"name": ...}) on the content left after the lines with
\* document.write are dropped
Find(meta) == IF meta.dw THEN NoMeta ELSE meta

\* tag['content'] of the element soup.find returned
Content(meta) ==
    IF meta.state = "absent" THEN Raise("TypeError")
    ELSE IF meta.state = "nocontent" THEN Raise("KeyError")
    ELSE Return(meta.s)

get_wallpaper_details(resp) ==
    IF resp.kind \in {"URLError", "HTTPError"} THEN Return(PyFalse)
    \* html.parser has no HTMLParseError in any Python that accepts the
    \* f-strings of this module: matching the except clause raises
    ELSE IF resp.kind = "unparsable" THEN Raise("AttributeError")
    ELSE LET u == Content(Find(resp.img))
             t == Content(Find(resp.title))
         IN  IF u.raised # "none" THEN u
             ELSE IF t.raised # "none" THEN t
             ELSE Return(URLDetail(u.val, t.val))

\* download_wallpaper without its except clauses: a failed fetch raises
download_wallpaper_raises(plat, u, dir, fname, fetch) ==
    LET segs    == Split(u, ".")
        name    == fname \o <<".">> \o segs[Len(segs)]
        outpath == PathJoin(plat, dir, name)
    IN  [raised |-> IF fetch = "ok" THEN "none" ELSE fetch,
         val |-> outpath, wrote |-> (fetch = "ok")]

\* fetch is the server's answer to the GET of url; wrote says whether the
\* file at outpath was opened for writing
download_wallpaper(plat, u, dir, fname, fetch) ==
    LET segs    == Split(u, ".")
        name    == fname \o <<".">> \o segs[Len(segs)]
        outpath == PathJoin(plat, dir, name)
    IN  [raised |-> "none", val |-> outpath, wrote |-> (fetch = "ok")]

\* a lookup with a default, as _get_free_bytes has: an unknown platform gets
\* the linux variant
LookupSetterDefault(plat) ==
    CASE plat = "win32"  -> Return("_set_wallpaper_win32")
      [] plat = "darwin" -> Return("_set_wallpaper_darwin")
      [] OTHER           -> Return("_set_wallpaper_linux")

\* globals()['_set_wallpaper_' + sys.platform]
LookupSetter(plat) ==
    CASE plat = "linux"  -> Return("_set_wallpaper_linux")
      [] plat = "win32"  -> Return("_set_wallpaper_win32")
      [] plat = "darwin" -> Return("_set_wallpaper_darwin")
      [] OTHER           -> Raise("KeyError")

\* what can happen to the command or system call a setter issues: it takes
\* effect ("ok"), it fails ("failed": non-zero exit status or zero return
\* value), or the command cannot be started at all ("OSError")
SetterResults(setter) ==
    CASE setter = "_set_wallpaper_linux"  -> {"ok", "failed", "OSError"}
      [] setter = "_set_wallpaper_win32"  -> {"ok", "failed"}
      [] setter = "_set_wallpaper_darwin" -> {"ok", "failed", "OSError"}

\* subprocess.Popen(cmd): started and not waited for; val says whether the
\* desktop changed
_set_wallpaper_linux(res) ==
    IF res = "OSError" THEN [raised |-> "OSError", val |-> FALSE]
    ELSE [raised |-> "none", val |-> (res = "ok")]

\* SystemParametersInfo(...): the return value is dropped
_set_wallpaper_win32(res) == [raised |-> "none", val |-> (res = "ok")]

\* subprocess.check_call(cmd): raises on a non-zero exit status
_set_wallpaper_darwin(res) ==
    IF res = "OSError" THEN [raised |-> "OSError", val |-> FALSE]
    ELSE IF res = "failed" THEN [raised |-> "CalledProcessError", val |-> FALSE]
    ELSE [raised |-> "none", val |-> TRUE]

CallSetter(setter, res) ==
    CASE setter = "_set_wallpaper_linux"  -> _set_wallpaper_linux(res)
      [] setter = "_set_wallpaper_win32"  -> _set_wallpaper_win32(res)
      [] setter = "_set_wallpaper_darwin" -> _set_wallpaper_darwin(res)

\* ------------------------------------------------------------------------
\* State.
\* ------------------------------------------------------------------------

VARIABLES
    platform,       \* sys.platform
    picture_dir,    \* module global
    disk,           \* the file system behind picture_dir
    pc,             \* the statement the interpreter is at
    set_wallpaper,  \* module global bound at import
    fs, url, title, filename,   \* locals of set_random_wallpaper
    page,           \* the server's answer to the page GET, once issued
    calls,          \* the calls made to the OS and the network, in order
    written,        \* paths opened for writing in this run
    wallpaper,      \* the file the desktop was switched to, None if untouched
    outcome         \* how the process ended

vars == <<platform, picture_dir, disk, pc, set_wallpaper, fs, url, title,
          filename, page, calls, written, wallpaper, outcome>>

env    == <<platform, picture_dir, disk>>
locals == <<fs, url, title, filename>>

InitWith(disks) ==
    /\ platform \in Platforms
    /\ picture_dir \in Dirs
    /\ disk \in disks
    /\ pc = "import"
    /\ set_wallpaper = "unbound"
    /\ fs = PyNone
    /\ url = None
    /\ title = None
    /\ filename = None
    /\ page = NoPage
    /\ calls = <<>>
    /\ written = {}
    /\ wallpaper = None
    /\ outcome = Running

Init == InitWith(Disks(MaxTotal))

InitFS == InitWith(Disks(MaxTotalFS))

Terminate(o) == pc' = "done" /\ outcome' = o

Call(op, arg, res) == calls' = Append(calls, [op |-> op, arg |-> arg, res |-> res])

\* module load: the platform dispatch of line 169
Import ==
    /\ pc = "import"
    /\ LET r == LookupSetter(platform)
       IN  IF r.raised # "none"
           THEN Terminate(Uncaught(r.raised)) /\ UNCHANGED set_wallpaper
           ELSE /\ set_wallpaper' = r.val
                /\ pc' = "free_space"
                /\ UNCHANGED outcome
    /\ UNCHANGED <<env, locals, page, calls, written, wallpaper>>

\* fs = free_space(picture_dir)
FreeSpaceStep ==
    /\ pc = "free_space"
    /\ LET r == free_space(platform, disk)
       IN  /\ Call("free_bytes", picture_dir,
                   IF disk.exists THEN "ok" ELSE "OSError")
           /\ IF r.raised # "none"
              THEN Terminate(Uncaught(r.raised)) /\ UNCHANGED fs
              ELSE fs' = r.val /\ pc' = "check_space" /\ UNCHANGED outcome
    /\ UNCHANGED <<env, set_wallpaper, url, title, filename, page, written,
                   wallpaper>>

\* the tests on fs with the second SystemExit left out
CheckSpaceStepNoAbort ==
    /\ pc = "check_space"
    /\ IF ~Truthy(fs) THEN Terminate(SystemExit(1))
       ELSE pc' = "get_details" /\ UNCHANGED outcome
    /\ UNCHANGED <<env, set_wallpaper, locals, page, calls, written, wallpaper>>

\* the two tests on fs
CheckSpaceStep ==
    /\ pc = "check_space"
    /\ IF ~Truthy(fs) THEN Terminate(SystemExit(1))
       ELSE IF fs.v <= free_space_minimum THEN Terminate(SystemExit(2))
       ELSE pc' = "get_details" /\ UNCHANGED outcome
    /\ UNCHANGED <<env, set_wallpaper, locals, page, calls, written, wallpaper>>

\* url, title = get_wallpaper_details(base_url)
GetDetailsStep ==
    /\ pc = "get_details"
    /\ \E resp \in Responses :
         LET r == get_wallpaper_details(resp)
         IN  /\ page' = resp
             /\ Call("GET page", base_url,
                     IF resp.kind \in {"URLError", "HTTPError"}
                     THEN resp.kind ELSE "ok")
             /\ IF r.raised # "none"
                THEN Terminate(Uncaught(r.raised)) /\ UNCHANGED <<url, title>>
                ELSE IF r.val.type # "URLDetail"
                \* unpacking False into two names
                THEN Terminate(Uncaught("TypeError")) /\ UNCHANGED <<url, title>>
                ELSE /\ url' = r.val.url
                     /\ title' = r.val.title
                     /\ pc' = "check_url"
                     /\ UNCHANGED outcome
    /\ UNCHANGED <<env, set_wallpaper, fs, filename, written, wallpaper>>

\* if not url
CheckUrlStep ==
    /\ pc = "check_url"
    /\ IF url = <<>> THEN Terminate(SystemExit(3))
       ELSE pc' = "download" /\ UNCHANGED outcome
    /\ UNCHANGED <<env, set_wallpaper, locals, page, calls, written, wallpaper>>

\* filename = download_wallpaper(url, picture_dir, title)
DownloadStep ==
    /\ pc = "download"
    /\ \E fetch \in Fetches :
         LET r == download_wallpaper(platform, url, picture_dir, title, fetch)
         IN  /\ Call("GET image", url, fetch)
             /\ written' = IF r.wrote THEN written \cup {r.val} ELSE written
             /\ IF r.raised # "none"
                THEN Terminate(Uncaught(r.raised)) /\ UNCHANGED filename
                ELSE filename' = r.val /\ pc' = "set_wallpaper" /\ UNCHANGED outcome
    /\ UNCHANGED <<env, set_wallpaper, fs, url, title, page, wallpaper>>

\* set_wallpaper(filename), dispatched on the variant bound at import
SetWallpaperStep ==
    /\ pc = "set_wallpaper"
    /\ \E res \in SetterResults(set_wallpaper) :
         LET r == CallSetter(set_wallpaper, res)
         IN  /\ Call("set_wallpaper", filename, res)
             /\ wallpaper' = IF r.val THEN filename ELSE wallpaper
             /\ IF r.raised # "none"
                THEN Terminate(Uncaught(r.raised))
                ELSE Terminate(Normal)
    /\ UNCHANGED <<env, set_wallpaper, locals, page, written>>

Next ==
    \/ Import
    \/ FreeSpaceStep
    \/ CheckSpaceStep
    \/ GetDetailsStep
    \/ CheckUrlStep
    \/ DownloadStep
    \/ SetWallpaperStep

Spec == Init /\ [][Next]_vars

\* free_space alone, on a larger range of disks
NextFS ==
    \/ Import
    \/ FreeSpaceStep

SpecFS == InitFS /\ [][NextFS]_vars

\* ------------------------------------------------------------------------
\* Properties.
\* ------------------------------------------------------------------------

Issued(op) == \E i \in 1..Len(calls) : calls[i].op = op

CallOf(op) == calls[CHOOSE i \in 1..Len(calls) : calls[i].op = op]

NoHTTP == ~Issued("GET page") /\ ~Issued("GET image")

Abs(x) == IF x < 0 THEN -x ELSE x

\* n / d rounded to the nearest integer, halves to the even neighbour
ExactRound(n, d) ==
    LET q == n \div d
        r == n % d
    IN  IF 2 * r < d THEN q
        ELSE IF 2 * r > d THEN q + 1
        ELSE IF q % 2 = 0 THEN q ELSE q + 1

\* the text after the last "." of u (all of u when it has none)
Ext(u) ==
    LET dots == {i \in 1..Len(u) : u[i] = "."}
    IN  IF dots = {} THEN u
        ELSE SubSeq(u, (CHOOSE i \in dots : \A j \in dots : j <= i) + 1, Len(u))

\* dir followed by one separator unless it is empty or ends with one
DirPrefix(plat, dir) ==
    IF dir = <<>> \/ dir[Len(dir)] \in Seps(plat) THEN dir
    ELSE dir \o <<Sep(plat)>>

IsPrefix(p, s) == Len(p) <= Len(s) /\ SubSeq(s, 1, Len(p)) = p

\* C1: whenever free_space returned a percentage p with 0 <= p <=
\* free_space_minimum, no HTTP request is ever issued and the run ends with
\* SystemExit(2).
C1_LowSpaceExits2 ==
    (fs.type = "int" /\ fs.v \in 0..free_space_minimum) =>
        /\ NoHTTP
        /\ pc = "done" => outcome = SystemExit(2)

\* C2: when the GET of the page fails with URLError or HTTPError,
\* get_wallpaper_details returns the "not found" value and the run ends with
\* SystemExit(3), without image download or wallpaper-set call.
C2_PageTransportErrorExits3 ==
    page.kind \in {"URLError", "HTTPError"} =>
        /\ get_wallpaper_details(page) = Return(PyFalse)
        /\ pc = "done"
        /\ outcome = SystemExit(3)
        /\ ~Issued("GET image")
        /\ ~Issued("set_wallpaper")

\* C3: when the page parses but has no twitter:image:src meta element, or no
\* twitter:title one, the run ends with SystemExit(3); nothing is defaulted
\* and neither the download nor the wallpaper-set step runs.
C3_MissingMetaExits3 ==
    (page.kind = "page" /\
        (page.img.state = "absent" \/ page.title.state = "absent")) =>
        /\ pc = "done"
        /\ outcome = SystemExit(3)
        /\ url = None
        /\ title = None
        /\ ~Issued("GET image")
        /\ ~Issued("set_wallpaper")

\* C4: when picture_dir does not exist, free_space returns the False
\* sentinel without raising, and the run ends with SystemExit(1) before any
\* HTTP request, file write or wallpaper-set call.
C4_MissingDirExits1 ==
    (~disk.exists /\ Issued("free_bytes")) =>
        /\ fs = PyFalse
        /\ pc \in {"check_space", "done"}
        /\ pc = "done" => outcome = SystemExit(1)
        /\ outcome \in {Running, SystemExit(1)}
        /\ NoHTTP
        /\ ~Issued("set_wallpaper")
        /\ written = {}
        /\ wallpaper = None

C4_Witness ==
    /\ ~disk.exists
    /\ pc = "done"
    /\ outcome = SystemExit(1)
    /\ Len(calls) = 1

\* C5: once the image GET was issued, download_wallpaper has returned the
\* path of the file <title>.<ext> directly inside picture_dir, ext being the
\* text after the last "." of the url, whether the fetch succeeded or failed;
\* after a failed fetch no exception ended the run there and no file was
\* written.
C5_DownloadPath ==
    Issued("GET image") =>
        /\ filename = DirPrefix(platform, picture_dir) \o title \o <<".">> \o Ext(url)
        /\ pc \in {"set_wallpaper", "done"}
        /\ CallOf("GET image").res # "ok" => written = {}

\* Order of the calls of a run (used by C6): they are a prefix of disk check, page GET, image GET,
\* wallpaper set, each made at most once: the page GET only after the space
\* check passed, the image GET only after a url and title were obtained,
\* the wallpaper set only after download_wallpaper returned; once the run
\* has ended nothing more is called.
C6_OrderInv ==
    /\ Len(calls) <= 4
    /\ \A i \in 1..Len(calls) :
         calls[i].op = <<"free_bytes", "GET page", "GET image", "set_wallpaper">>[i]
    /\ Issued("GET page") => (fs.type = "int" /\ fs.v > free_space_minimum)
    /\ Issued("GET image") =>
         (page.kind = "page" /\ url # None /\ url # <<>> /\ title # None)
    /\ Issued("set_wallpaper") =>
         (filename # None /\ CallOf("set_wallpaper").arg = filename)
    /\ outcome # Running => pc = "done"

\* C6, over whole runs: the order above holds in every state, every step adds
\* at most one call, and after the run has ended no call is added.
C6_StepOrder ==
    /\ []C6_OrderInv
    /\ [][/\ Len(calls') <= Len(calls) + 1
          /\ outcome # Running => (calls' = calls /\ outcome' = outcome)]_vars

C6_Witness ==
    /\ pc = "done"
    /\ outcome = Normal
    /\ Len(calls) = 4

\* C7: on a platform without a setter variant the run never ends normally
\* and never touches the desktop: it ends with the KeyError of the failed
\* '_set_wallpaper_<platform>' lookup.
C7_UnsupportedPlatformFails ==
    platform \notin {"linux", "win32", "darwin"} =>
        /\ pc \in {"import", "done"}
        /\ pc = "done" => outcome = Uncaught("KeyError")
        /\ outcome # Normal
        /\ wallpaper = None
        /\ ~Issued("set_wallpaper")

C7_Witness ==
    /\ platform = "freebsd"
    /\ pc = "done"
    /\ outcome = Uncaught("KeyError")

\* C8: the file name download_wallpaper builds holds no path separator and
\* no control character, so the returned path names a file directly inside
\* picture_dir.
C8_SanitizedName ==
    filename # None =>
        /\ IsPrefix(DirPrefix(platform, picture_dir), filename)
        /\ \A i \in (Len(DirPrefix(platform, picture_dir)) + 1)..Len(filename) :
             filename[i] \notin Seps(platform) \cup {Ctrl}

C10_FailedFetchEndsNormally ==
    (Issued("GET image") /\ CallOf("GET image").res # "ok") =>
        /\ pc \in {"set_wallpaper", "done"}
        /\ filename # None
        /\ written = {}
        /\ pc = "done" =>
             /\ Len(calls) = 4
             /\ calls[4].op = "set_wallpaper"
             /\ calls[4].arg = filename
             /\ outcome = Normal

\* C10 as amended: after a failed image fetch the run still calls
\* set_wallpaper exactly once, with the path download_wallpaper returned,
\* no file having been written; it then ends normally unless the setter
\* itself raises (check_call on darwin, a command that cannot be started).
C10_FailedFetchStillSets ==
    (Issued("GET image") /\ CallOf("GET image").res # "ok") =>
        /\ pc \in {"set_wallpaper", "done"}
        /\ filename # None
        /\ written = {}
        /\ pc = "done" =>
             /\ Len(calls) = 4
             /\ calls[4].op = "set_wallpaper"
             /\ calls[4].arg = filename
             /\ outcome = IF CallSetter(set_wallpaper, calls[4].res).raised = "none"
                          THEN Normal
                          ELSE Uncaught(CallSetter(set_wallpaper, calls[4].res).raised)

C10_Witness ==
    /\ Issued("GET image")
    /\ CallOf("GET image").res = "URLError"
    /\ pc = "done"
    /\ outcome = Normal
    /\ wallpaper = filename
    /\ written = {}
====
